---- MODULE Spec2Model ----
(***************************************************************************)
(* Model of class SOM of "Self-Organizing Feature Maps.ipynb": the lattice *)
(* of weight vectors, __init__, get_bmu, get_bmu_dist, get_nbhood_radius,  *)
(* teach_row and the two nested loops of teach.                            *)
(*                                                                         *)
(* float64 values are modelled in fixed point: a real r is the integer     *)
(* r * Scale, rounded to nearest.  math.log and np.exp are computed by     *)
(* their power series in that fixed point.  numpy broadcasting of a sample *)
(* against the (x, y, dimen) weight array is modelled by its shape rule.   *)
(***************************************************************************)
EXTENDS Integers, Sequences, FiniteSets

\* ---------------------------------------------------------------- bounds
MaxIter == 2
MaxSamples == 2

\* fixed-point unit standing for float64 (weights are .astype('float64'))
Scale == 1000
\* np.random.randint(256, ...): values are drawn from 0 .. 255
RandHigh == 256

\* constructor arguments tried: (x_size, y_size, dimen)
Shapes ==
  { <<1, 1, 1>>, <<3, 1, 1>>, <<1, 3, 1>>, <<3, 2, 1>>, <<2, 3, 1>>,
    <<3, 1, 2>>, <<1, 1, 3>>, <<2, 1, 1>>, <<1, 1, 2>>, <<2, 2, 1>>,
    <<0, 1, 1>>, <<0, 3, 1>>, <<0, 0, 0>>, <<-1, 1, 1>> }
\* the values the random initial weights and the sample components take
WeightVals == { v \in {0, 8} : v < RandHigh }
SampleVals == {0, 8}

\* ------------------------------------------------------- float arithmetic
Abs(a) == IF a < 0 THEN -a ELSE a

Max2(a, b) == IF a >= b THEN a ELSE b

\* a / b rounded to nearest (b # 0)
RDiv(a, b) ==
  LET q == (2 * Abs(a) + Abs(b)) \div (2 * Abs(b))
  IN  IF (a < 0) = (b < 0) THEN q ELSE -q

RECURSIVE ExpSeries(_, _, _, _)
ExpSeries(y, k, term, acc) ==
  IF term = 0 THEN acc
  ELSE ExpSeries(y, k + 1, RDiv(term * y, k * Scale), acc + term)

\* np.exp(x): sum of x^k / k! for x >= 0, its reciprocal for x < 0
Exp(x) ==
  IF x >= 0 THEN ExpSeries(x, 1, Scale, 0)
  ELSE RDiv(Scale * Scale, ExpSeries(-x, 1, Scale, 0))

RECURSIVE LogSeries(_, _, _, _)
LogSeries(z2, k, pow, acc) ==
  IF pow = 0 THEN acc
  ELSE LogSeries(z2, k + 2, RDiv(pow * z2, Scale), acc + RDiv(pow, k))

\* math.log(x) for x > 0: 2 * atanh((x - 1) / (x + 1))
Log(x) ==
  LET z == RDiv((x - Scale) * Scale, x + Scale)
  IN  2 * LogSeries(RDiv(z * z, Scale), 1, z, 0)

\* ------------------------------------------------------------------ state
VARIABLES
  pc,          \* "new", "ready", "init_error", "teach", "done", "teach_error"
  x_size, y_size, dimen, num_iter,   \* the arguments of __init__
  weights,     \* self.weights: cell <<x, y>> -> sequence of dimen values
  map_radius,  \* self.map_radius (sigma_0)
  t_const,     \* self.t_const (lambda)
  t_set,       \* the argument of teach
  i, j,        \* the loop counters of teach
  updates,     \* number of executions of "self.weights += ..." so far
  h_iter,      \* the iteration index the last update passed to teach_row
  h_j,         \* the sample index the last update used
  h_vec,       \* the sample the last update used
  h_radius,    \* the neighbourhood radius teach_row computed in the last update
  h_lr,        \* the learning rate teach_row computed in the last update
  h_bmu,       \* the result of get_bmu in the last update
  h_before,    \* the lattice the last update read
  h_after,     \* the lattice the last update left
  h_left       \* the lattice the update before the last one left

vars == << pc, x_size, y_size, dimen, num_iter, weights, map_radius, t_const,
           t_set, i, j, updates, h_iter, h_j, h_vec, h_radius, h_lr, h_bmu,
           h_before, h_after, h_left >>

\* the grid coordinates of an array of shape (xs, ys, ...)
Cells(xs, ys) == (0 .. xs - 1) \X (0 .. ys - 1)

\* ------------------------------------------------------------- __init__
\* max(self.weights.shape) / 2: the shape is (x_size, y_size, dimen)
InitMapRadius(xs, ys, d) == RDiv(Max2(xs, Max2(ys, d)) * Scale, 2)

\* self.num_iter / math.log(self.map_radius), where it is defined
InitTConst(n, r) == RDiv(n * Scale * Scale, Log(r))

\* what __init__ raises, if anything: randint rejects a negative dimension,
\* math.log rejects 0, and the division rejects math.log(1.0) = 0.0
InitRaises(xs, ys, d) ==
  \/ xs < 0 \/ ys < 0 \/ d < 0
  \/ InitMapRadius(xs, ys, d) <= 0
  \/ Log(InitMapRadius(xs, ys, d)) = 0

\* np.random.randint(256, size=(x_size, y_size, dimen)).astype('float64')
RandomWeights(xs, ys, d) ==
  [Cells(xs, ys) -> [1 .. d -> { v * Scale : v \in WeightVals }]]

\* ------------------------------------------------------ decay schedules
\* self.map_radius * np.exp(-iter_count / self.t_const)
get_nbhood_radius(r0, tc, iter_count) ==
  RDiv(r0 * Exp(RDiv(-iter_count * Scale * Scale, tc)), Scale)

\* lr = 0.1 * np.exp(-i / self.num_iter)
lr(iter, n) == RDiv((Scale \div 10) * Exp(RDiv(-iter * Scale, n)), Scale)

\* ---------------------------------------------------------- broadcasting
\* numpy: trailing axes of length d and len are compatible
Broadcastable(d, len) == d = len \/ d = 1 \/ len = 1

\* the length of the trailing axis of (weights - vector)
ResultDim(d, len) == IF d = 1 THEN len ELSE d

WeightAt(w, c, k) == IF dimen = 1 THEN w[c][1] ELSE w[c][k]

VecAt(v, k) == IF Len(v) = 1 THEN v[1] ELSE v[k]

\* ---------------------------------------------------------------- get_bmu
RECURSIVE SumSq(_, _, _, _)
SumSq(w, c, v, k) ==
  IF k = 0 THEN 0
  ELSE SumSq(w, c, v, k - 1)
         + (WeightAt(w, c, k) - VecAt(v, k)) * (WeightAt(w, c, k) - VecAt(v, k))

\* np.sum((self.weights - vector) ** 2, 2), in units of 1 / Scale^2
distance(w, v) ==
  [c \in Cells(x_size, y_size) |-> SumSq(w, c, v, ResultDim(dimen, Len(v)))]

\* np.unravel_index(min_idx, distance.shape): C order
unravel_index(n, ys) == << n \div ys, n % ys >>

\* variant of the scan that keeps the last index of the minimum
RECURSIVE ArgMinLastFrom(_, _, _, _)
ArgMinLastFrom(d, n, size, best) ==
  IF n = size THEN best
  ELSE ArgMinLastFrom(d, n + 1, size,
         IF d[unravel_index(n, y_size)] <= d[unravel_index(best, y_size)]
         THEN n ELSE best)

RECURSIVE ArgMinFrom(_, _, _, _)
ArgMinFrom(d, n, size, best) ==
  IF n = size THEN best
  ELSE ArgMinFrom(d, n + 1, size,
         IF d[unravel_index(n, y_size)] < d[unravel_index(best, y_size)]
         THEN n ELSE best)

\* distance.argmin(): the first index of the minimum of the flattened array
argmin(d) == ArgMinFrom(d, 1, x_size * y_size, 0)

get_bmu(w, v) == unravel_index(argmin(distance(w, v)), y_size)

\* -------------------------------------------------------- get_bmu_dist
get_bmu_dist(w, v) ==
  LET b == get_bmu(w, v)
  IN  [c \in Cells(x_size, y_size) |->
         (c[1] - b[1]) * (c[1] - b[1]) + (c[2] - b[2]) * (c[2] - b[2])]

\* -------------------------------------------------------------- teach_row
\* theta = np.exp(-(bmu_dist) / (2 * nbhood_radius ** 2))
theta(bmu_dist, nbhood_radius) ==
  Exp(-RDiv(bmu_dist * Scale * Scale, 2 * RDiv(nbhood_radius * nbhood_radius, Scale)))

\* variant of teach_row with the operands of the difference swapped
teach_row_away(w, v, iter) ==
  LET nbhood_radius == get_nbhood_radius(map_radius, t_const, iter)
      bmu_dist == get_bmu_dist(w, v)
  IN  [c \in Cells(x_size, y_size) |->
         LET th == theta(bmu_dist[c], nbhood_radius)
         IN  [k \in 1 .. ResultDim(dimen, Len(v)) |->
                RDiv(th * (WeightAt(w, c, k) - VecAt(v, k)), Scale)]]

\* np.expand_dims(theta, 2) * (vector - self.weights); lr is not a factor
teach_row(w, v, iter) ==
  LET nbhood_radius == get_nbhood_radius(map_radius, t_const, iter)
      bmu_dist == get_bmu_dist(w, v)
  IN  [c \in Cells(x_size, y_size) |->
         LET th == theta(bmu_dist[c], nbhood_radius)
         IN  [k \in 1 .. ResultDim(dimen, Len(v)) |->
                RDiv(th * (VecAt(v, k) - WeightAt(w, c, k)), Scale)]]

\* whether "self.weights += self.teach_row(vector, i)" raises: the subtraction
\* in get_bmu needs broadcastable shapes, argmin a non-empty array, and the
\* in-place add a result of the shape of self.weights
UpdateRaises(v) ==
  \/ ~Broadcastable(dimen, Len(v))
  \/ Cells(x_size, y_size) = {}
  \/ ResultDim(dimen, Len(v)) \notin {dimen, 1}

\* self.weights += delta
iadd(w, delta) ==
  [c \in Cells(x_size, y_size) |->
     [k \in 1 .. dimen |-> w[c][k] + delta[c][IF Len(delta[c]) = 1 THEN 1 ELSE k]]]

\* ------------------------------------------------------------------ teach
\* variant of SampleAt that walks the training set backwards
SampleAtReversed(ts, jj) == ts[Len(ts) - jj]

\* variant of IterArg that advances with every sample
IterArgPerSample(ii, jj) == ii + jj

\* the arguments of the call self.teach_row(t_set[j], i)
SampleAt(ts, jj) == ts[jj + 1]

IterArg(ii, jj) == ii

\* the samples a training set is made of: every vector of the configured
\* length, one of length 1 and one of length dimen + 1
SamplePool(d) ==
  [1 .. d -> { v * Scale : v \in SampleVals }]
    \cup { [k \in 1 .. 1 |-> 8 * Scale], [k \in 1 .. d + 1 |-> 0] }

TrainingSets(d) == UNION { [1 .. n -> SamplePool(d)] : n \in 0 .. MaxSamples }

\* ---------------------------------------------------------------- actions
Init ==
  /\ pc = "new"
  /\ \E s \in Shapes : x_size = s[1] /\ y_size = s[2] /\ dimen = s[3]
  /\ num_iter \in 0 .. MaxIter
  /\ weights = << >>
  /\ map_radius = 0
  /\ t_const = 0
  /\ t_set = << >>
  /\ i = 0
  /\ j = 0
  /\ updates = 0
  /\ h_iter = 0
  /\ h_j = 0
  /\ h_vec = << >>
  /\ h_radius = 0
  /\ h_lr = 0
  /\ h_bmu = << 0, 0 >>
  /\ h_before = << >>
  /\ h_after = << >>
  /\ h_left = << >>

hist == << updates, h_iter, h_j, h_vec, h_radius, h_lr, h_bmu, h_before,
          h_after, h_left >>

\* SOM.__init__
Construct ==
  /\ pc = "new"
  /\ IF InitRaises(x_size, y_size, dimen)
     THEN /\ pc' = "init_error"
          /\ UNCHANGED << weights, map_radius, t_const >>
     ELSE /\ pc' = "ready"
          /\ weights' \in RandomWeights(x_size, y_size, dimen)
          /\ map_radius' = InitMapRadius(x_size, y_size, dimen)
          /\ t_const' = InitTConst(num_iter, InitMapRadius(x_size, y_size, dimen))
  /\ UNCHANGED << x_size, y_size, dimen, num_iter, t_set, i, j, hist >>

\* the call s.teach(t_set): both loops start
TeachCall ==
  /\ pc = "ready"
  /\ t_set' \in TrainingSets(dimen)
  /\ pc' = "teach"
  /\ i' = 0
  /\ j' = 0
  /\ UNCHANGED << x_size, y_size, dimen, num_iter, weights, map_radius, t_const, hist >>

\* one pass of the inner loop: self.weights += self.teach_row(t_set[j], i)
TeachStep ==
  /\ pc = "teach"
  /\ i < num_iter
  /\ j < Len(t_set)
  /\ LET v == SampleAt(t_set, j)
         it == IterArg(i, j)
     IN  IF UpdateRaises(v)
         THEN /\ pc' = "teach_error"
              /\ UNCHANGED << weights, i, j, hist >>
         ELSE /\ weights' = iadd(weights, teach_row(weights, v, it))
              /\ j' = j + 1
              /\ updates' = updates + 1
              /\ h_iter' = it
              /\ h_j' = j
              /\ h_vec' = v
              /\ h_radius' = get_nbhood_radius(map_radius, t_const, it)
              /\ h_lr' = lr(it, num_iter)
              /\ h_bmu' = get_bmu(weights, v)
              /\ h_before' = weights
              /\ h_after' = weights'
              /\ h_left' = h_after
              /\ UNCHANGED << pc, i >>
  /\ UNCHANGED << x_size, y_size, dimen, num_iter, map_radius, t_const, t_set >>

\* the inner loop is exhausted: the outer loop takes its next i
NextEpoch ==
  /\ pc = "teach"
  /\ i < num_iter
  /\ j = Len(t_set)
  /\ i' = i + 1
  /\ j' = 0
  /\ UNCHANGED << pc, x_size, y_size, dimen, num_iter, weights, map_radius,
                  t_const, t_set, hist >>

\* range(self.num_iter) is exhausted: teach returns
TeachReturn ==
  /\ pc = "teach"
  /\ i = num_iter
  /\ pc' = "done"
  /\ UNCHANGED << x_size, y_size, dimen, num_iter, weights, map_radius,
                  t_const, t_set, i, j, hist >>

Next == Construct \/ TeachCall \/ TeachStep \/ NextEpoch \/ TeachReturn

Spec == Init /\ [][Next]_vars

\* ================================================================ claims
constructed == pc \in {"ready", "teach", "done", "teach_error"}

grid == Cells(x_size, y_size)

\* a SOM the specification admits: positive sizes and a radius above 1
well_formed ==
  x_size > 0 /\ y_size > 0 /\ dimen > 0 /\ map_radius > Scale

\* squared distance of cell c of lattice w to the last sample
dist_to_sample(w, c) == SumSq(w, c, h_vec, ResultDim(dimen, Len(h_vec)))

\* the epoch the last update belongs to, counted from the number of updates
epoch_of_last == (updates - 1) \div Len(t_set)

\* C1: one update changes every component of every cell by exactly
\* lr(t) * theta(cell) * (v - w): the applied delta is scaled by the
\* learning rate.  Stated for the SOMs the specification admits and samples
\* of the configured length.
C1_DeltaScaledByLr ==
  (updates > 0 /\ well_formed /\ Len(h_vec) = dimen) =>
    LET bmu_dist == get_bmu_dist(h_before, h_vec)
    IN  \A c \in grid : \A k \in 1 .. dimen :
          h_after[c][k] - h_before[c][k]
            = RDiv(h_lr * theta(bmu_dist[c], h_radius)
                     * (VecAt(h_vec, k) - h_before[c][k]), Scale * Scale)

\* C2: map_radius of a constructed SOM is max(width, height) / 2, whatever
\* the dimensionality.
C2_RadiusFromGrid ==
  constructed => map_radius = RDiv(Max2(x_size, y_size) * Scale, 2)

\* C3: construction with a non-positive width, height or dimensionality, or
\* with map_radius <= 1, fails: no SOM is produced and no update ever runs.
C3_InvalidRejected ==
  (/\ pc # "new"
   /\ \/ x_size <= 0 \/ y_size <= 0 \/ dimen <= 0
      \/ InitMapRadius(x_size, y_size, dimen) <= Scale)
    => (pc = "init_error" /\ updates = 0)

\* C4: a sample whose length differs from dimen (length 1 included) aborts
\* teach: its update is never applied to the lattice.
C4_MismatchAborts ==
  updates > 0 => Len(h_vec) = dimen

\* C5: on a training set of valid samples teach ends by returning, after
\* exactly num_iter * |t_set| updates.
C5_ExactlyNTimesSamples ==
  (/\ pc \in {"done", "teach_error"}
   /\ \A k \in 1 .. Len(t_set) : Len(t_set[k]) = dimen)
    => (pc = "done" /\ updates = num_iter * Len(t_set))

\* C6: the iteration counter runs 0, 1, ... and advances only at an epoch
\* boundary: i counts the completed passes over the training set, and every
\* update of epoch t is computed with the radius and learning rate of t.
C6_IterationPerEpoch ==
  /\ pc = "teach" =>
       /\ i \in 0 .. num_iter
       /\ j \in 0 .. Len(t_set)
       /\ updates = i * Len(t_set) + j
  /\ updates > 0 =>
       /\ h_iter = epoch_of_last
       /\ h_iter < num_iter
       /\ h_radius = get_nbhood_radius(map_radius, t_const, epoch_of_last)
       /\ h_lr = lr(epoch_of_last, num_iter)

\* C6 witness: the second sample of the second epoch has been applied, with
\* the radius of iteration 1, which differs from that of iteration 0
C6_Witness ==
  /\ Len(t_set) >= 2
  /\ updates = Len(t_set) + 2
  /\ h_iter = 1
  /\ h_j = 1
  /\ h_radius # map_radius

\* C7: samples are used in the order of the training set, each update reads
\* the lattice exactly as the previous update left it, and the lattice holds
\* exactly the result of the last update.
C7_SequentialUpdates ==
  updates > 0 =>
    /\ h_j = (updates - 1) % Len(t_set)
    /\ h_vec = t_set[h_j + 1]
    /\ h_after = iadd(h_before, teach_row(h_before, h_vec, h_iter))
    /\ weights = h_after
    /\ updates >= 2 => h_before = h_left

\* C7 witness: sample 0 of epoch 1 was applied to a lattice that the last
\* sample of epoch 0 had changed, and changed it again
C7_Witness ==
  /\ Len(t_set) >= 2
  /\ updates = Len(t_set) + 1
  /\ h_j = 0
  /\ h_iter = 1
  /\ t_set[1] # t_set[2]
  /\ h_before = h_left
  /\ h_after # h_before

\* c1 comes no later than c2 in the row-major scan of the grid
RowMajorLeq(c1, c2) == c1[1] < c2[1] \/ (c1[1] = c2[1] /\ c1[2] <= c2[2])

\* C8: get_bmu returns a cell of minimum squared distance to the input, the
\* first such cell in row-major order; on a lattice whose cells all hold the
\* same vector it returns (0, 0).
C8_BmuFirstMinimum ==
  updates > 0 =>
    LET d == distance(h_before, h_vec)
    IN  /\ h_bmu \in grid
        /\ \A c \in grid :
             /\ d[h_bmu] <= d[c]
             /\ d[c] = d[h_bmu] => RowMajorLeq(h_bmu, c)
        /\ (\A c1, c2 \in grid : h_before[c1] = h_before[c2])
             => h_bmu = << 0, 0 >>

\* C8 witness: the minimum is attained by two cells that row-major and
\* column-major order rank differently, and the earlier one is not (0, 0)
C8_Witness ==
  /\ updates > 0
  /\ h_bmu # << 0, 0 >>
  /\ \E c \in grid :
       /\ c[1] > h_bmu[1]
       /\ c[2] < h_bmu[2]
       /\ distance(h_before, h_vec)[c] = distance(h_before, h_vec)[h_bmu]

\* C9: for every SOM construction accepts, get_nbhood_radius(0) = map_radius
\* and the radius is positive and strictly decreasing over [0, num_iter).
C9_RadiusDecreasing ==
  (constructed /\ num_iter > 0) =>
    /\ get_nbhood_radius(map_radius, t_const, 0) = map_radius
    /\ \A t \in 0 .. num_iter - 1 :
         /\ get_nbhood_radius(map_radius, t_const, t) > 0
         /\ t + 1 < num_iter =>
              get_nbhood_radius(map_radius, t_const, t + 1)
                < get_nbhood_radius(map_radius, t_const, t)

\* C10 as stated: after every update the cell that was the BMU is strictly
\* closer (squared distance) to the input than before.  Stated for the SOMs
\* the specification admits.
C10_StrictlyCloser ==
  (updates > 0 /\ well_formed) => dist_to_sample(h_after, h_bmu) < dist_to_sample(h_before, h_bmu)

\* C10 amended: after every update the cell that was the BMU is strictly
\* closer to the input than before when its distance was not zero, and stays
\* at distance zero when it was.
C10_CloserUnlessEqual ==
  updates > 0 =>
    /\ dist_to_sample(h_before, h_bmu) > 0
         => dist_to_sample(h_after, h_bmu) < dist_to_sample(h_before, h_bmu)
    /\ dist_to_sample(h_before, h_bmu) = 0
         => dist_to_sample(h_after, h_bmu) = 0

\* C10 witness: an update whose BMU was at a non-zero distance and moved closer
C10_Witness ==
  /\ updates > 0
  /\ well_formed
  /\ Len(h_vec) = dimen
  /\ dist_to_sample(h_before, h_bmu) > 0
  /\ dist_to_sample(h_after, h_bmu) < dist_to_sample(h_before, h_bmu)

====
